---- MODULE Spec2Model ----
(***************************************************************************)
(* Model of srclib's "pull" and "push" commands (remote_data_cmds.go):     *)
(* PullCmd.Execute / fetchFile and PushCmd.Execute / uploadFile, run over  *)
(* a local build-data store, a remote build-data service and the bounded   *)
(* parallel runner parallel.Run.                                           *)
(***************************************************************************)
EXTENDS Integers, Sequences, FiniteSets, TLC

(***************************************************************************)
(* Bounds of the model.                                                    *)
(***************************************************************************)
\* number of distinct relative paths in the stores of the wide scenario
NumPaths == 9
\* number of sequential command invocations in one behaviour
MaxRuns == 2
\* number of faults the environment injects on healthy resources
MaxFaults == 2
\* number of listed local files that disappear during one push
MaxVanish == 1
\* length of the non-empty file contents
DataLen == 10

(***************************************************************************)
(* Program constants.                                                      *)
(***************************************************************************)
\* mutant: the runner is created one slot too wide
PullMaxParOffByOne == 8 + 1
\* mutant: a run that admits no task at all
PullMaxParZero == 8 - 8
\* par := parallel.NewRun(8) in PullCmd.Execute
PullMaxPar == 8
\* par := parallel.NewRun(8) in PushCmd.Execute
PushMaxPar == 8

(***************************************************************************)
(* Values.                                                                 *)
(***************************************************************************)
\* repo.CommitID of the working copy, and one other commit with build data
RepoCommit == "c1"
OtherCommit == "c2"
Commits == {RepoCommit, OtherCommit}
Paths == 1..NumPaths
PathA == 1
PathB == 2

\* a store key: the concrete path of (commitID, path)
Keys == Commits \X Paths

Absent == <<-1>>
Empty == << >>
\* DataOf(n): n bytes 1, 2, ..., n
DataOf(n) == [k \in 1..n |-> k]
Prefixes(d) == {SubSeq(d, 1, n) : n \in 0..Len(d)}

EmptyStore == [k \in Keys |-> Absent]
Present(store) == {k \in Keys : store[k] # Absent}

\* the scenario stores: nothing; {A: DataLen bytes, B: 0 bytes} of the
\* repository's commit; A of the repository's commit and A of another one;
\* every path of the repository's commit, one byte each
StoreAB == [k \in Keys |-> IF k = <<RepoCommit, PathA>> THEN DataOf(DataLen)
                           ELSE IF k = <<RepoCommit, PathB>> THEN Empty
                           ELSE Absent]
StoreTwoCommits == [k \in Keys |-> IF k = <<RepoCommit, PathA>> THEN Empty
                                   ELSE IF k = <<OtherCommit, PathA>> THEN DataOf(DataLen)
                                   ELSE Absent]
StoreWide == [k \in Keys |-> IF k[1] = RepoCommit THEN DataOf(1) ELSE Absent]

NoErr == <<0, "nil">>
Err(i, step) == <<i, step>>

Terminal == {"Empty", "Listed", "Synced", "Failed", "Fatal"}

VARIABLES
  remote,      \* contents held by the remote build-data service, by key
  local,       \* files of the local repository store, by key
  localDirs,   \* directories of the local repository store
  healthy,     \* keys whose remote Get / local Stat the environment serves
  faults,      \* faults injected so far on healthy resources
  cmd,         \* "none", "pull" or "push"
  listOnly,    \* c.List
  pc,          \* position of Execute
  result,      \* error returned by Execute
  files,       \* remoteFiles / localFiles
  idx,         \* number of records the loop has passed to par.Do
  tpc,         \* position of each transfer task
  tres,        \* error returned by each transfer task
  trec,        \* the record each task was handed (file := file_)
  tdata,       \* bytes behind the stream each task reads
  handles,     \* open streams: <<task, "remoteFile">>, <<task, "f">>
  active,      \* tasks holding a slot of parallel.Run
  firstErr,    \* error parallel.Run reports from Wait
  calls,       \* store and service calls of this run: <<task, call>>
  vanished,    \* keys deleted from the local store behind push's back
  dirty,       \* the environment interfered with this run
  local0,      \* local files when this run started
  remote0,     \* remote contents when this run started
  run,         \* number of runs started
  prev         \* summary of the previous run

vars == <<remote, local, localDirs, healthy, faults, cmd, listOnly, pc, result,
          files, idx, tpc, tres, trec, tdata, handles, active, firstErr, calls,
          vanished, dirty, local0, remote0, run, prev>>

storeVars == <<remote, local, localDirs>>
taskVars == <<tpc, tres, trec, tdata, handles, active, firstErr>>
histVars == <<local0, remote0, run, prev>>

Tasks == 1..(2 * NumPaths)
NoPrev == [cmd |-> "none"]

(***************************************************************************)
(* The stores' addressing and listings.                                    *)
(***************************************************************************)
\* repoStore.FilePath(commitID, path): the concrete path of a record
FilePath(commitID, path) == <<commitID, path>>
\* filepath.Dir(path): the commit's directory
Dir(path) == path[1]

\* the r-th key in listing order: by commit, then by path
KeyAt(r) == <<IF r <= NumPaths THEN RepoCommit ELSE OtherCommit,
              ((r - 1) % NumPaths) + 1>>
RECURSIVE SeqFrom(_, _)
SeqFrom(S, r) ==
  IF r > 2 * NumPaths THEN << >>
  ELSE (IF KeyAt(r) \in S THEN <<KeyAt(r)>> ELSE << >>) \o SeqFrom(S, r + 1)

\* apiclient.BuildData.List(rr, nil): the records of revision rr
RemoteList(commitID) == SeqFrom({k \in Present(remote) : k[1] = commitID}, 1)
\* repoStore.AllDataFiles(): every regular file under the store
AllDataFiles == SeqFrom(Present(local), 1)

\* the concrete path of a record
RecKey(rec) == FilePath(rec[1], rec[2])
\* the key a task transfers: path := repoStore.FilePath(fi.CommitID, fi.Path)
KeyOf(i) == RecKey(trec[i])

(***************************************************************************)
(* parallel.Run: at most maxPar tasks at a time, Wait reports the first    *)
(* error.                                                                  *)
(***************************************************************************)
\* parallel.NewRun(maxPar)
NewRun ==
  /\ active' = {}
  /\ firstErr' = NoErr

\* par.Do(f) blocks while maxPar tasks hold a slot
CanDo(maxPar) == Cardinality(active) < maxPar

\* the task's goroutine ends: its error is recorded, its slot released
RunDone(i, err) ==
  /\ active' = active \ {i}
  /\ firstErr' = IF err # NoErr /\ firstErr = NoErr THEN err ELSE firstErr

\* par.Wait() returns once every task passed to Do has ended
WaitReady == active = {}

\* what Execute's position becomes when it returns err
Returned(err) == IF err = NoErr THEN "Synced" ELSE "Failed"

(***************************************************************************)
(* Steps shared by the transfer tasks.                                     *)
(***************************************************************************)
\* return err from fetchFile / uploadFile: the deferred Close calls run
Return(i, err, deferred) ==
  /\ tpc' = [tpc EXCEPT ![i] = "done"]
  /\ tres' = [tres EXCEPT ![i] = err]
  /\ handles' = handles \ deferred
  /\ RunDone(i, err)

\* the environment fails a call on a healthy resource
Fault ==
  /\ faults < MaxFaults
  /\ faults' = faults + 1
  /\ dirty' = TRUE

NoFault == UNCHANGED <<faults, dirty>>


\* the environment fails a call: always on an unhealthy key, else as a fault
FailsOn(key) ==
  IF key \in healthy
  THEN Fault
  ELSE /\ dirty' = TRUE
       /\ UNCHANGED faults

\* io.Copy into a file opened at offset 0: the bytes written replace the
\* file's first bytes
WriteAt0(old, written) ==
  written \o SubSeq(old, Len(written) + 1, Len(old))

\* repoStore.AllDataFiles() lists what the local store holds and does not
\* fail, whatever the store holds
AllDataFilesFails == FALSE

Called(i, call) == calls' = calls \cup {<<i, call>>}

(***************************************************************************)
(* PullCmd.Execute                                                         *)
(***************************************************************************)
\* the pull command is invoked, with or without --list
PullStart(list) ==
  /\ pc = "idle"
  /\ cmd' = "pull"
  /\ listOnly' = list
  /\ pc' = "OpenRepo"
  /\ UNCHANGED <<storeVars, healthy, faults, result, files, idx, taskVars,
                 calls, vanished, dirty, histVars>>

\* repo, err := OpenRepo("."); if err != nil { return err }
PullOpenRepo ==
  /\ cmd = "pull" /\ pc = "OpenRepo"
  /\ \/ /\ pc' = "List"
        /\ NoFault
        /\ UNCHANGED result
     \/ /\ Fault
        /\ result' = Err(0, "OpenRepo")
        /\ pc' = "Failed"
  /\ UNCHANGED <<storeVars, healthy, cmd, listOnly, files, idx, taskVars,
                 calls, vanished, histVars>>

\* mutant: a 404 from List is fatal like any other error
PullListNotFoundFatal ==
  /\ cmd = "pull" /\ pc = "List"
  /\ \/ /\ RemoteList(RepoCommit) = << >>
        /\ Called(0, "ListNotFound")
        /\ pc' = "Fatal"
        /\ result' = Err(0, "List")
        /\ NoFault
        /\ UNCHANGED files
     \/ /\ Fault
        /\ Called(0, "ListError")
        /\ pc' = "Fatal"
        /\ result' = Err(0, "List")
        /\ UNCHANGED files
     \/ /\ files' = RemoteList(RepoCommit)
        /\ Called(0, "List")
        /\ pc' = IF listOnly THEN "Print" ELSE "NewStore"
        /\ NoFault
        /\ UNCHANGED result
  /\ UNCHANGED <<storeVars, healthy, cmd, listOnly, idx, taskVars,
                 vanished, histVars>>

\* mutant: the --list flag is not looked at after listing
PullListIgnoresListFlag ==
  /\ cmd = "pull" /\ pc = "List"
  /\ \/ /\ RemoteList(RepoCommit) = << >>
        /\ Called(0, "ListNotFound")
        /\ pc' = "Empty"
        /\ result' = NoErr
        /\ NoFault
        /\ UNCHANGED files
     \/ /\ Fault
        /\ Called(0, "ListError")
        /\ pc' = "Fatal"
        /\ result' = Err(0, "List")
        /\ UNCHANGED files
     \/ /\ files' = RemoteList(RepoCommit)
        /\ Called(0, "List")
        /\ pc' = "NewStore"
        /\ NoFault
        /\ UNCHANGED result
  /\ UNCHANGED <<storeVars, healthy, cmd, listOnly, idx, taskVars,
                 vanished, histVars>>

\* remoteFiles, resp, err := apiclient.BuildData.List(rr, nil): a 404 ends the
\* command with nil, any other error is fatal
PullList ==
  /\ cmd = "pull" /\ pc = "List"
  /\ \/ /\ RemoteList(RepoCommit) = << >>
        /\ Called(0, "ListNotFound")
        /\ pc' = "Empty"
        /\ result' = NoErr
        /\ NoFault
        /\ UNCHANGED files
     \/ /\ Fault
        /\ Called(0, "ListError")
        /\ pc' = "Fatal"
        /\ result' = Err(0, "List")
        /\ UNCHANGED files
     \/ /\ files' = RemoteList(RepoCommit)
        /\ Called(0, "List")
        /\ pc' = IF listOnly THEN "Print" ELSE "NewStore"
        /\ NoFault
        /\ UNCHANGED result
  /\ UNCHANGED <<storeVars, healthy, cmd, listOnly, idx, taskVars,
                 vanished, histVars>>

\* if c.List { print every record; return nil }
PullPrint ==
  /\ cmd = "pull" /\ pc = "Print"
  /\ pc' = "Listed"
  /\ result' = NoErr
  /\ UNCHANGED <<storeVars, healthy, faults, cmd, listOnly, files, idx,
                 taskVars, calls, vanished, dirty, histVars>>

\* mutant: the error of NewRepositoryStore is not looked at
PullNewStoreIgnoresError ==
  /\ cmd = "pull" /\ pc = "NewStore"
  /\ \/ /\ pc' = "Loop"
        /\ NewRun
        /\ Called(0, "NewRun")
        /\ NoFault
        /\ UNCHANGED result
     \/ /\ Fault
        /\ result' = Err(0, "NewRepositoryStore")
        /\ pc' = "Loop"
        /\ NewRun
        /\ Called(0, "NewRun")
  /\ UNCHANGED <<storeVars, healthy, cmd, listOnly, files, idx, tpc, tres, trec,
                 tdata, handles, vanished, histVars>>

\* repoStore, err := buildstore.NewRepositoryStore(repo.RootDir);
\* if err != nil { return err }; par := parallel.NewRun(8)
PullNewStore ==
  /\ cmd = "pull" /\ pc = "NewStore"
  /\ \/ /\ pc' = "Loop"
        /\ NewRun
        /\ Called(0, "NewRun")
        /\ NoFault
        /\ UNCHANGED result
     \/ /\ Fault
        /\ result' = Err(0, "NewRepositoryStore")
        /\ pc' = "Failed"
        /\ UNCHANGED <<active, firstErr, calls>>
  /\ UNCHANGED <<storeVars, healthy, cmd, listOnly, files, idx, tpc, tres, trec,
                 tdata, handles, vanished, histVars>>

\* mutant: the tasks share the loop variable and see the last record
PullDoSharedLoopVar ==
  /\ cmd = "pull" /\ pc = "Loop"
  /\ idx < Len(files)
  /\ CanDo(PullMaxPar)
  /\ idx' = idx + 1
  /\ active' = active \cup {idx + 1}
  /\ tpc' = [tpc EXCEPT ![idx + 1] = "Get"]
  /\ trec' = [trec EXCEPT ![idx + 1] = files[Len(files)]]
  /\ UNCHANGED <<storeVars, healthy, faults, cmd, listOnly, pc, result, files,
                 tres, tdata, handles, firstErr, calls, vanished, dirty,
                 histVars>>

\* for _, file_ := range remoteFiles { file := file_; par.Do(fetchFile(file)) }
PullDo ==
  /\ cmd = "pull" /\ pc = "Loop"
  /\ idx < Len(files)
  /\ CanDo(PullMaxPar)
  /\ idx' = idx + 1
  /\ active' = active \cup {idx + 1}
  /\ tpc' = [tpc EXCEPT ![idx + 1] = "Get"]
  /\ trec' = [trec EXCEPT ![idx + 1] = files[idx + 1]]
  /\ UNCHANGED <<storeVars, healthy, faults, cmd, listOnly, pc, result, files,
                 tres, tdata, handles, firstErr, calls, vanished, dirty,
                 histVars>>

\* mutant: Execute returns after the loop without waiting for the tasks
PullWaitNoWait ==
  /\ cmd = "pull" /\ pc = "Loop"
  /\ idx = Len(files)
  /\ result' = firstErr
  /\ pc' = Returned(firstErr)
  /\ UNCHANGED <<storeVars, healthy, faults, cmd, listOnly, files, idx,
                 taskVars, calls, vanished, dirty, histVars>>

\* mutant: Execute waits for the tasks and drops what Wait reports
PullWaitDropsError ==
  /\ cmd = "pull" /\ pc = "Loop"
  /\ idx = Len(files)
  /\ WaitReady
  /\ result' = NoErr
  /\ pc' = "Synced"
  /\ UNCHANGED <<storeVars, healthy, faults, cmd, listOnly, files, idx,
                 taskVars, calls, vanished, dirty, histVars>>

\* mutant: Execute gives up at the first error, leaving the other tasks behind
PullWaitStopsAtFirstError ==
  /\ cmd = "pull" /\ pc = "Loop"
  /\ \/ idx = Len(files) /\ WaitReady
     \/ firstErr # NoErr
  /\ result' = firstErr
  /\ pc' = Returned(firstErr)
  /\ UNCHANGED <<storeVars, healthy, faults, cmd, listOnly, files, idx,
                 taskVars, calls, vanished, dirty, histVars>>

\* return par.Wait()
PullWait ==
  /\ cmd = "pull" /\ pc = "Loop"
  /\ idx = Len(files)
  /\ WaitReady
  /\ result' = firstErr
  /\ pc' = Returned(firstErr)
  /\ UNCHANGED <<storeVars, healthy, faults, cmd, listOnly, files, idx,
                 taskVars, calls, vanished, dirty, histVars>>

(***************************************************************************)
(* fetchFile                                                               *)
(***************************************************************************)
\* mutant: the directory is made before the remote file is asked for
FetchGetMkdirFirst(i) ==
  /\ cmd = "pull" /\ tpc[i] = "Get"
  /\ Called(i, "Get")
  /\ localDirs' = localDirs \cup {Dir(KeyOf(i))}
  /\ \/ /\ KeyOf(i) \in healthy
        /\ tdata' = [tdata EXCEPT ![i] = remote[KeyOf(i)]]
        /\ handles' = handles \cup {<<i, "remoteFile">>}
        /\ tpc' = [tpc EXCEPT ![i] = "MkdirAll"]
        /\ NoFault
        /\ UNCHANGED <<tres, active, firstErr>>
     \/ /\ FailsOn(KeyOf(i))
        /\ Return(i, Err(i, "Get"), {})
        /\ UNCHANGED tdata
  /\ UNCHANGED <<remote, local, healthy, cmd, listOnly, pc, result, files, idx,
                 vanished, histVars>>
  /\ UNCHANGED trec

\* remoteFile, _, err := apiclientUncached.BuildData.Get(fileSpec);
\* if err != nil { return err }; defer remoteFile.Close()
FetchGet(i) ==
  /\ cmd = "pull" /\ tpc[i] = "Get"
  /\ Called(i, "Get")
  /\ \/ /\ KeyOf(i) \in healthy
        /\ tdata' = [tdata EXCEPT ![i] = remote[KeyOf(i)]]
        /\ handles' = handles \cup {<<i, "remoteFile">>}
        /\ tpc' = [tpc EXCEPT ![i] = "MkdirAll"]
        /\ NoFault
        /\ UNCHANGED <<tres, active, firstErr>>
     \/ /\ FailsOn(KeyOf(i))
        /\ Return(i, Err(i, "Get"), {})
        /\ UNCHANGED tdata
  /\ UNCHANGED <<storeVars, healthy, cmd, listOnly, pc, result, files, idx,
                 vanished, histVars>>
  /\ UNCHANGED trec

\* err = rwvfs.MkdirAll(repoStore, filepath.Dir(path)); if err != nil { return err }
FetchMkdirAll(i) ==
  /\ cmd = "pull" /\ tpc[i] = "MkdirAll"
  /\ Called(i, "MkdirAll")
  /\ \/ /\ localDirs' = localDirs \cup {Dir(KeyOf(i))}
        /\ tpc' = [tpc EXCEPT ![i] = "Create"]
        /\ NoFault
        /\ UNCHANGED <<tres, handles, active, firstErr>>
     \/ /\ Fault
        /\ Return(i, Err(i, "MkdirAll"), {<<i, "remoteFile">>})
        /\ UNCHANGED localDirs
  /\ UNCHANGED <<remote, local, healthy, cmd, listOnly, pc, result, files, idx,
                 tdata, vanished, histVars>>
  /\ UNCHANGED trec

\* mutant: the file is created exclusively, an existing file is an error
FetchCreateExcl(i) ==
  /\ cmd = "pull" /\ tpc[i] = "Create"
  /\ Called(i, "Create")
  /\ \/ /\ local[KeyOf(i)] = Absent
        /\ local' = [local EXCEPT ![KeyOf(i)] = Empty]
        /\ handles' = handles \cup {<<i, "f">>}
        /\ tpc' = [tpc EXCEPT ![i] = "Copy"]
        /\ NoFault
        /\ UNCHANGED <<tres, active, firstErr>>
     \/ /\ local[KeyOf(i)] # Absent
        /\ NoFault
        /\ Return(i, Err(i, "Create"), {<<i, "remoteFile">>})
        /\ UNCHANGED local
     \/ /\ Fault
        /\ Return(i, Err(i, "Create"), {<<i, "remoteFile">>})
        /\ UNCHANGED local
  /\ UNCHANGED <<remote, localDirs, healthy, cmd, listOnly, pc, result, files,
                 idx, tdata, vanished, histVars>>
  /\ UNCHANGED trec

\* f, err := repoStore.Create(path); if err != nil { return err }; defer f.Close()
FetchCreate(i) ==
  /\ cmd = "pull" /\ tpc[i] = "Create"
  /\ Called(i, "Create")
  /\ \/ /\ local' = [local EXCEPT ![KeyOf(i)] = Empty]
        /\ handles' = handles \cup {<<i, "f">>}
        /\ tpc' = [tpc EXCEPT ![i] = "Copy"]
        /\ NoFault
        /\ UNCHANGED <<tres, active, firstErr>>
     \/ /\ Fault
        /\ Return(i, Err(i, "Create"), {<<i, "remoteFile">>})
        /\ UNCHANGED local
  /\ UNCHANGED <<remote, localDirs, healthy, cmd, listOnly, pc, result, files,
                 idx, tdata, vanished, histVars>>
  /\ UNCHANGED trec

\* mutant: the error of io.Copy is dropped
FetchCopySwallowsError(i) ==
  /\ cmd = "pull" /\ tpc[i] = "Copy"
  /\ Called(i, "Copy")
  /\ \/ /\ local' = [local EXCEPT ![KeyOf(i)] = WriteAt0(@, tdata[i])]
        /\ Return(i, NoErr, {<<i, "remoteFile">>, <<i, "f">>})
        /\ NoFault
     \/ /\ Fault
        /\ \E written \in Prefixes(tdata[i]) :
             local' = [local EXCEPT ![KeyOf(i)] = WriteAt0(@, written)]
        /\ Return(i, NoErr, {<<i, "remoteFile">>, <<i, "f">>})
  /\ UNCHANGED <<remote, localDirs, healthy, cmd, listOnly, pc, result, files,
                 idx, tdata, vanished, histVars>>
  /\ UNCHANGED trec

\* if _, err := io.Copy(f, remoteFile); err != nil { return err }; return nil
FetchCopy(i) ==
  /\ cmd = "pull" /\ tpc[i] = "Copy"
  /\ Called(i, "Copy")
  /\ \/ /\ local' = [local EXCEPT ![KeyOf(i)] = WriteAt0(@, tdata[i])]
        /\ Return(i, NoErr, {<<i, "remoteFile">>, <<i, "f">>})
        /\ NoFault
     \/ /\ Fault
        /\ \E written \in Prefixes(tdata[i]) :
             local' = [local EXCEPT ![KeyOf(i)] = WriteAt0(@, written)]
        /\ Return(i, Err(i, "Copy"), {<<i, "remoteFile">>, <<i, "f">>})
  /\ UNCHANGED <<remote, localDirs, healthy, cmd, listOnly, pc, result, files,
                 idx, tdata, vanished, histVars>>
  /\ UNCHANGED trec

(***************************************************************************)
(* PushCmd.Execute                                                         *)
(***************************************************************************)
\* the push command is invoked, with or without --list
PushStart(list) ==
  /\ pc = "idle"
  /\ cmd' = "push"
  /\ listOnly' = list
  /\ pc' = "OpenRepo"
  /\ UNCHANGED <<storeVars, healthy, faults, result, files, idx, taskVars,
                 calls, vanished, dirty, histVars>>

\* repo, err := OpenRepo("."); if err != nil { return err }
PushOpenRepo ==
  /\ cmd = "push" /\ pc = "OpenRepo"
  /\ \/ /\ pc' = "NewStore"
        /\ NoFault
        /\ UNCHANGED result
     \/ /\ Fault
        /\ result' = Err(0, "OpenRepo")
        /\ pc' = "Failed"
  /\ UNCHANGED <<storeVars, healthy, cmd, listOnly, files, idx, taskVars,
                 calls, vanished, histVars>>

\* repoStore, err := buildstore.NewRepositoryStore(repo.RootDir);
\* if err != nil { log.Fatal(err) }
PushNewStore ==
  /\ cmd = "push" /\ pc = "NewStore"
  /\ \/ /\ pc' = "List"
        /\ NoFault
        /\ UNCHANGED result
     \/ /\ Fault
        /\ result' = Err(0, "NewRepositoryStore")
        /\ pc' = "Fatal"
  /\ UNCHANGED <<storeVars, healthy, cmd, listOnly, files, idx, taskVars,
                 calls, vanished, histVars>>

\* mutant: an empty listing is answered like a 404, before any run is made
PushAllDataFilesEmptyIsNotFound ==
  /\ cmd = "push" /\ pc = "List"
  /\ \/ /\ AllDataFiles = << >>
        /\ Called(0, "ListNotFound")
        /\ pc' = "Empty"
        /\ result' = NoErr
        /\ NoFault
        /\ UNCHANGED <<files, active, firstErr>>
     \/ /\ AllDataFiles # << >>
        /\ files' = AllDataFiles
        /\ pc' = IF listOnly THEN "Print" ELSE "Loop"
        /\ IF listOnly
           THEN /\ Called(0, "AllDataFiles")
                /\ UNCHANGED <<active, firstErr>>
           ELSE /\ calls' = calls \cup {<<0, "AllDataFiles">>, <<0, "NewRun">>}
                /\ NewRun
        /\ NoFault
        /\ UNCHANGED result
     \/ /\ AllDataFilesFails
        /\ Fault
        /\ Called(0, "AllDataFilesError")
        /\ result' = Err(0, "AllDataFiles")
        /\ pc' = "Fatal"
        /\ UNCHANGED <<files, active, firstErr>>
  /\ UNCHANGED <<storeVars, healthy, cmd, listOnly, idx, tpc, tres, trec, tdata,
                 handles, vanished, histVars>>

\* localFiles, err := repoStore.AllDataFiles(); if err != nil { log.Fatal(err) };
\* without --list: par := parallel.NewRun(8)
PushAllDataFiles ==
  /\ cmd = "push" /\ pc = "List"
  /\ \/ /\ files' = AllDataFiles
        /\ pc' = IF listOnly THEN "Print" ELSE "Loop"
        /\ IF listOnly
           THEN /\ Called(0, "AllDataFiles")
                /\ UNCHANGED <<active, firstErr>>
           ELSE /\ calls' = calls \cup {<<0, "AllDataFiles">>, <<0, "NewRun">>}
                /\ NewRun
        /\ NoFault
        /\ UNCHANGED result
     \/ /\ AllDataFilesFails
        /\ Fault
        /\ Called(0, "AllDataFilesError")
        /\ result' = Err(0, "AllDataFiles")
        /\ pc' = "Fatal"
        /\ UNCHANGED <<files, active, firstErr>>
  /\ UNCHANGED <<storeVars, healthy, cmd, listOnly, idx, tpc, tres, trec, tdata,
                 handles, vanished, histVars>>

\* if c.List { print every path; return nil }
PushPrint ==
  /\ cmd = "push" /\ pc = "Print"
  /\ pc' = "Listed"
  /\ result' = NoErr
  /\ UNCHANGED <<storeVars, healthy, faults, cmd, listOnly, files, idx,
                 taskVars, calls, vanished, dirty, histVars>>

\* mutant: the tasks share the loop variable and see the last path
PushDoSharedLoopVar ==
  /\ cmd = "push" /\ pc = "Loop"
  /\ idx < Len(files)
  /\ CanDo(PushMaxPar)
  /\ idx' = idx + 1
  /\ active' = active \cup {idx + 1}
  /\ tpc' = [tpc EXCEPT ![idx + 1] = "Stat"]
  /\ trec' = [trec EXCEPT ![idx + 1] = files[Len(files)]]
  /\ UNCHANGED <<storeVars, healthy, faults, cmd, listOnly, pc, result, files,
                 tres, tdata, handles, firstErr, calls, vanished, dirty,
                 histVars>>

\* for _, file_ := range localFiles { file := file_; par.Do(uploadFile(file)) }
PushDo ==
  /\ cmd = "push" /\ pc = "Loop"
  /\ idx < Len(files)
  /\ CanDo(PushMaxPar)
  /\ idx' = idx + 1
  /\ active' = active \cup {idx + 1}
  /\ tpc' = [tpc EXCEPT ![idx + 1] = "Stat"]
  /\ trec' = [trec EXCEPT ![idx + 1] = files[idx + 1]]
  /\ UNCHANGED <<storeVars, healthy, faults, cmd, listOnly, pc, result, files,
                 tres, tdata, handles, firstErr, calls, vanished, dirty,
                 histVars>>

\* return par.Wait()
PushWait ==
  /\ cmd = "push" /\ pc = "Loop"
  /\ idx = Len(files)
  /\ WaitReady
  /\ result' = firstErr
  /\ pc' = Returned(firstErr)
  /\ UNCHANGED <<storeVars, healthy, faults, cmd, listOnly, files, idx,
                 taskVars, calls, vanished, dirty, histVars>>

(***************************************************************************)
(* uploadFile                                                              *)
(***************************************************************************)
\* mutant: a file that no longer exists is an error of the upload
UploadStatStrict(i) ==
  /\ cmd = "push" /\ tpc[i] = "Stat"
  /\ \/ /\ local[KeyOf(i)] = Absent
        /\ Called(i, "StatNotExist")
        /\ Return(i, Err(i, "Stat"), {})
        /\ NoFault
     \/ /\ local[KeyOf(i)] # Absent
        /\ FailsOn(KeyOf(i))
        /\ Called(i, "StatError")
        /\ Return(i, NoErr, {})
     \/ /\ local[KeyOf(i)] # Absent
        /\ KeyOf(i) \in healthy
        /\ Fault
        /\ Called(i, "StatNotRegular")
        /\ Return(i, NoErr, {})
     \/ /\ local[KeyOf(i)] # Absent
        /\ KeyOf(i) \in healthy
        /\ Called(i, "Stat")
        /\ tpc' = [tpc EXCEPT ![i] = "Open"]
        /\ NoFault
        /\ UNCHANGED <<tres, handles, active, firstErr>>
  /\ UNCHANGED <<storeVars, healthy, cmd, listOnly, pc, result, files, idx,
                 tdata, vanished, histVars>>
  /\ UNCHANGED trec

\* mutant: a file of size 0 is skipped like a missing one
UploadStatSkipsEmpty(i) ==
  /\ cmd = "push" /\ tpc[i] = "Stat"
  /\ \/ /\ local[KeyOf(i)] \in {Absent, Empty}
        /\ Called(i, "StatNotExist")
        /\ Return(i, NoErr, {})
        /\ NoFault
     \/ /\ local[KeyOf(i)] # Absent
        /\ FailsOn(KeyOf(i))
        /\ Called(i, "StatError")
        /\ Return(i, NoErr, {})
     \/ /\ local[KeyOf(i)] # Absent
        /\ KeyOf(i) \in healthy
        /\ Fault
        /\ Called(i, "StatNotRegular")
        /\ Return(i, NoErr, {})
     \/ /\ local[KeyOf(i)] \notin {Absent, Empty}
        /\ KeyOf(i) \in healthy
        /\ Called(i, "Stat")
        /\ tpc' = [tpc EXCEPT ![i] = "Open"]
        /\ NoFault
        /\ UNCHANGED <<tres, handles, active, firstErr>>
  /\ UNCHANGED <<storeVars, healthy, cmd, listOnly, pc, result, files, idx,
                 tdata, vanished, histVars>>
  /\ UNCHANGED trec

\* mutant: only "does not exist" is skipped, any other Stat error is returned
UploadStatOnlyNotExist(i) ==
  /\ cmd = "push" /\ tpc[i] = "Stat"
  /\ \/ /\ local[KeyOf(i)] = Absent
        /\ Called(i, "StatNotExist")
        /\ Return(i, NoErr, {})
        /\ NoFault
     \/ /\ local[KeyOf(i)] # Absent
        /\ FailsOn(KeyOf(i))
        /\ Called(i, "StatError")
        /\ Return(i, Err(i, "Stat"), {})
     \/ /\ local[KeyOf(i)] # Absent
        /\ KeyOf(i) \in healthy
        /\ Fault
        /\ Called(i, "StatNotRegular")
        /\ Return(i, NoErr, {})
     \/ /\ local[KeyOf(i)] # Absent
        /\ KeyOf(i) \in healthy
        /\ Called(i, "Stat")
        /\ tpc' = [tpc EXCEPT ![i] = "Open"]
        /\ NoFault
        /\ UNCHANGED <<tres, handles, active, firstErr>>
  /\ UNCHANGED <<storeVars, healthy, cmd, listOnly, pc, result, files, idx,
                 tdata, vanished, histVars>>
  /\ UNCHANGED trec

\* fi, err := repoStore.Stat(path);
\* if err != nil || !fi.Mode().IsRegular() { return nil }
UploadStat(i) ==
  /\ cmd = "push" /\ tpc[i] = "Stat"
  /\ \/ /\ local[KeyOf(i)] = Absent
        /\ Called(i, "StatNotExist")
        /\ Return(i, NoErr, {})
        /\ NoFault
     \/ /\ local[KeyOf(i)] # Absent
        /\ FailsOn(KeyOf(i))
        /\ Called(i, "StatError")
        /\ Return(i, NoErr, {})
     \/ /\ local[KeyOf(i)] # Absent
        /\ KeyOf(i) \in healthy
        /\ Fault
        /\ Called(i, "StatNotRegular")
        /\ Return(i, NoErr, {})
     \/ /\ local[KeyOf(i)] # Absent
        /\ KeyOf(i) \in healthy
        /\ Called(i, "Stat")
        /\ tpc' = [tpc EXCEPT ![i] = "Open"]
        /\ NoFault
        /\ UNCHANGED <<tres, handles, active, firstErr>>
  /\ UNCHANGED <<storeVars, healthy, cmd, listOnly, pc, result, files, idx,
                 tdata, vanished, histVars>>
  /\ UNCHANGED trec

\* f, err := repoStore.Open(path); if err != nil { return err }
UploadOpen(i) ==
  /\ cmd = "push" /\ tpc[i] = "Open"
  /\ Called(i, "Open")
  /\ \/ /\ local[KeyOf(i)] # Absent
        /\ tdata' = [tdata EXCEPT ![i] = local[KeyOf(i)]]
        /\ handles' = handles \cup {<<i, "f">>}
        /\ tpc' = [tpc EXCEPT ![i] = "Upload"]
        /\ NoFault
        /\ UNCHANGED <<tres, active, firstErr>>
     \/ /\ local[KeyOf(i)] = Absent
        /\ Return(i, Err(i, "Open"), {})
        /\ NoFault
        /\ UNCHANGED tdata
     \/ /\ local[KeyOf(i)] # Absent
        /\ Fault
        /\ Return(i, Err(i, "Open"), {})
        /\ UNCHANGED tdata
  /\ UNCHANGED <<storeVars, healthy, cmd, listOnly, pc, result, files, idx,
                 vanished, histVars>>
  /\ UNCHANGED trec

\* mutant: an uploaded file is moved, not copied: it is removed locally
UploadUploadRemovesLocal(i) ==
  /\ cmd = "push" /\ tpc[i] = "Upload"
  /\ Called(i, "Upload")
  /\ \E closed \in {{}, {<<i, "f">>}} :
       \/ /\ remote' = [remote EXCEPT ![KeyOf(i)] = tdata[i]]
          /\ local' = [local EXCEPT ![KeyOf(i)] = Absent]
          /\ Return(i, NoErr, closed)
          /\ NoFault
       \/ /\ Fault
          /\ Return(i, Err(i, "Upload"), closed)
          /\ UNCHANGED <<remote, local>>
  /\ UNCHANGED <<localDirs, healthy, cmd, listOnly, pc, result, files,
                 idx, tdata, vanished, histVars>>
  /\ UNCHANGED trec

\* _, err = apiclient.BuildData.Upload(fileSpec, f); if err != nil { return err };
\* return nil.  uploadFile itself never closes f: whether the stream is closed
\* is left to what the transport does with the body it was handed.
UploadUpload(i) ==
  /\ cmd = "push" /\ tpc[i] = "Upload"
  /\ Called(i, "Upload")
  /\ \E closed \in {{}, {<<i, "f">>}} :
       \/ /\ remote' = [remote EXCEPT ![KeyOf(i)] = tdata[i]]
          /\ Return(i, NoErr, closed)
          /\ NoFault
       \/ /\ Fault
          /\ Return(i, Err(i, "Upload"), closed)
          /\ UNCHANGED remote
  /\ UNCHANGED <<local, localDirs, healthy, cmd, listOnly, pc, result, files,
                 idx, tdata, vanished, histVars>>
  /\ UNCHANGED trec

(***************************************************************************)
(* The environment.                                                        *)
(***************************************************************************)
\* a local file that push has listed is deleted before its upload has ended
Vanish(i) ==
  /\ cmd = "push" /\ pc = "Loop"
  /\ i \in 1..Len(files)
  /\ tpc[i] # "done"
  /\ RecKey(files[i]) \in healthy
  /\ local[RecKey(files[i])] # Absent
  /\ Cardinality(vanished) < MaxVanish
  /\ local' = [local EXCEPT ![RecKey(files[i])] = Absent]
  /\ vanished' = vanished \cup {RecKey(files[i])}
  /\ UNCHANGED <<remote, localDirs, healthy, faults, cmd, listOnly, pc, result,
                 files, idx, taskVars, calls, dirty, histVars>>

\* what is kept of a run that has ended
Summary ==
  [cmd |-> cmd, listOnly |-> listOnly, pc |-> pc, result |-> result,
   dirty |-> dirty, vanished |-> vanished,
   local0 |-> local0, remote0 |-> remote0, local |-> local, remote |-> remote]

NoTasks == [i \in Tasks |-> "new"]
NoResults == [i \in Tasks |-> NoErr]
NoRecs == [i \in Tasks |-> <<"none", 0>>]
NoData == [i \in Tasks |-> Empty]

\* a transfer that the environment did not disturb has ended and another
\* command is invoked, either on the same local store or on a fresh empty one
NextRun(freshStore) ==
  /\ pc \in Terminal
  /\ ~listOnly /\ ~dirty /\ vanished = {}
  /\ run < MaxRuns
  /\ run' = run + 1
  /\ prev' = Summary
  /\ local' = IF freshStore THEN EmptyStore ELSE local
  /\ localDirs' = IF freshStore THEN {} ELSE localDirs
  /\ local0' = local'
  /\ remote0' = remote
  /\ cmd' = "none"
  /\ listOnly' = FALSE
  /\ pc' = "idle"
  /\ result' = NoErr
  /\ files' = << >>
  /\ idx' = 0
  /\ tpc' = NoTasks
  /\ tres' = NoResults
  /\ trec' = NoRecs
  /\ tdata' = NoData
  /\ handles' = {}
  /\ active' = {}
  /\ firstErr' = NoErr
  /\ calls' = {}
  /\ vanished' = {}
  /\ dirty' = FALSE
  /\ UNCHANGED <<remote, healthy, faults>>

(***************************************************************************)
(* Specifications.                                                         *)
(***************************************************************************)
InitRun ==
  /\ cmd = "none"
  /\ listOnly = FALSE
  /\ pc = "idle"
  /\ result = NoErr
  /\ files = << >>
  /\ idx = 0
  /\ tpc = NoTasks
  /\ tres = NoResults
  /\ trec = NoRecs
  /\ tdata = NoData
  /\ handles = {}
  /\ active = {}
  /\ firstErr = NoErr
  /\ calls = {}
  /\ vanished = {}
  /\ dirty = FALSE
  /\ local0 = local
  /\ remote0 = remote
  /\ run = 1
  /\ prev = NoPrev

\* small stores, every resource healthy
Init ==
  /\ local \in {EmptyStore, StoreAB, StoreTwoCommits}
  /\ remote \in {EmptyStore, StoreAB}
  /\ localDirs = {k[1] : k \in Present(local)}
  /\ healthy = Keys
  /\ faults = 0
  /\ InitRun

\* wide stores, one healthy key: the other transfers end at their first call
InitWide ==
  /\ \E w \in {<<StoreWide, EmptyStore>>, <<EmptyStore, StoreWide>>} :
       local = w[1] /\ remote = w[2]
  /\ localDirs = {k[1] : k \in Present(local)}
  /\ healthy = {<<RepoCommit, PathA>>}
  /\ faults = 0
  /\ InitRun

\* the worlds of a pull: a wide remote none of whose files can be fetched,
\* and the small remote and the empty remote, every resource healthy
InitWideLive ==
  /\ \E w \in {<<EmptyStore, StoreWide, {}>>, <<EmptyStore, StoreAB, Keys>>,
               <<StoreAB, EmptyStore, Keys>>} :
       local = w[1] /\ remote = w[2] /\ healthy = w[3]
  /\ localDirs = {k[1] : k \in Present(local)}
  /\ faults = 0
  /\ InitRun

Next ==
  \/ \E list \in BOOLEAN : PullStart(list)
  \/ PullOpenRepo
  \/ PullList
  \/ PullPrint
  \/ PullNewStore
  \/ PullDo
  \/ PullWait
  \/ \E i \in Tasks : FetchGet(i)
  \/ \E i \in Tasks : FetchMkdirAll(i)
  \/ \E i \in Tasks : FetchCreate(i)
  \/ \E i \in Tasks : FetchCopy(i)
  \/ \E list \in BOOLEAN : PushStart(list)
  \/ PushOpenRepo
  \/ PushNewStore
  \/ PushAllDataFiles
  \/ PushPrint
  \/ PushDo
  \/ PushWait
  \/ \E i \in Tasks : UploadStat(i)
  \/ \E i \in Tasks : UploadOpen(i)
  \/ \E i \in Tasks : UploadUpload(i)
  \/ \E i \in Tasks : Vanish(i)
  \/ \E freshStore \in BOOLEAN : NextRun(freshStore)

\* the steps of a pull: Execute's own and those of its download tasks
PullStep ==
  \/ PullOpenRepo
  \/ PullList
  \/ PullPrint
  \/ PullNewStore
  \/ PullDo
  \/ PullWait
  \/ \E i \in Tasks : FetchGet(i) \/ FetchMkdirAll(i) \/ FetchCreate(i) \/ FetchCopy(i)

Spec == Init /\ [][Next]_vars
SpecWide == InitWide /\ [][Next]_vars

\* the worlds of a pull, where a pull that can take a step eventually takes one:
\* the goroutines are scheduled and every call of a transfer returns
SpecWideLive == InitWideLive /\ [][Next]_vars /\ WF_vars(PullStep)

(***************************************************************************)
(* Properties.                                                             *)
(***************************************************************************)
\* the transfer tasks that have started and have not ended
Running == {i \in Tasks : tpc[i] \notin {"new", "done"}}
\* the records Execute listed
Listed == 1..Len(files)
\* Execute got as far as its transfer loop
TransferReached == <<0, "NewRun">> \in calls
\* Execute returned from par.Wait()
TransferEnded == TransferReached /\ pc \in {"Synced", "Failed"}
\* the tasks that ended with an error
FailedTasks == {i \in Listed : tpc[i] = "done" /\ tres[i] # NoErr}
\* the calls a command makes before it lists
CallsOf(i) == {c[2] : c \in {d \in calls : d[1] = i}}

\* C1: in pull and in push, never more than 8 transfer tasks are running at
\* once, however many files are listed; the loop does not start a 9th.
C1_AtMostEightRunning ==
  /\ Cardinality(Running) <= 8
  /\ Running = active

\* C1 witness: 8 downloads are running and the loop still has a record to pass
C1_Witness ==
  /\ cmd = "pull" /\ pc = "Loop"
  /\ Cardinality(Running) = 8
  /\ idx < Len(files)

\* C2: when pull or push has returned from Wait (Synced or Failed), no task it
\* submitted is still running or waiting to run.
C2_WaitCoversEveryTask ==
  pc \in {"Synced", "Failed"} =>
    /\ Running = {}
    /\ active = {}
    /\ \A i \in 1..idx : tpc[i] = "done"

\* C2 witness: a pull of two or more files has returned from Wait
C2_Witness ==
  /\ cmd = "pull" /\ TransferEnded
  /\ idx >= 2
  /\ \A i \in 1..idx : tpc[i] = "done"

\* C3: the transfer phase returns nil exactly when every submitted task
\* succeeded; otherwise the command ends Failed with one error, which is the
\* error one of the failed tasks returned.
C3_FirstErrorOrNil ==
  TransferEnded =>
    /\ (result = NoErr) <=> (FailedTasks = {})
    /\ (pc = "Synced") <=> (result = NoErr)
    /\ result # NoErr => \E i \in FailedTasks : result = tres[i]

\* C3 witness: two tasks of a pull failed and the pull ended Failed with the
\* error of one of them
C3_Witness ==
  /\ cmd = "pull" /\ TransferEnded
  /\ Cardinality(FailedTasks) >= 2
  /\ pc = "Failed"
  /\ \E i \in FailedTasks : result = tres[i]

\* the task of a record whose file the task found missing when it called Stat
SeenMissing(i) == <<i, "StatNotExist">> \in calls

\* C4: a push in which listed files are gone when their upload looks for them
\* (and nothing else goes wrong) skips them without calling the remote at all,
\* uploads every other record and ends with no error.
C4_MissingFileSkipped ==
  /\ \A i \in Listed :
       cmd = "push" /\ SeenMissing(i) =>
         /\ tpc[i] = "done" /\ tres[i] = NoErr
         /\ CallsOf(i) = {"StatNotExist"}
         /\ remote[KeyOf(i)] = remote0[KeyOf(i)]
  /\ ( /\ cmd = "push" /\ TransferEnded /\ ~dirty
       /\ \A i \in Listed : KeyOf(i) \in vanished => SeenMissing(i) )
     => /\ pc = "Synced" /\ result = NoErr
        /\ \A i \in Listed :
             ~SeenMissing(i) =>
               /\ <<i, "Upload">> \in calls
               /\ remote[KeyOf(i)] = local0[KeyOf(i)]

\* C4 witness: a push of two files ended Synced, one file skipped as missing,
\* the other one uploaded
C4_Witness ==
  /\ cmd = "push" /\ pc = "Synced" /\ ~dirty
  /\ Len(files) = 2
  /\ \E i, j \in Listed :
       /\ SeenMissing(i) /\ KeyOf(i) \in vanished
       /\ <<j, "Upload">> \in calls /\ remote[KeyOf(j)] = local0[KeyOf(j)]

\* the only calls of a pull whose List answered NotFound
OnlyNotFound == calls = {<<0, "ListNotFound">>}

\* C5: when List answers NotFound, pull ends successfully (Empty, nil) with no
\* task submitted and no Get, MkdirAll or Create call, with or without --list.
C5_NotFoundIsEmptySuccess ==
  <<0, "ListNotFound">> \in calls =>
    /\ pc = "Empty" /\ result = NoErr
    /\ idx = 0 /\ Running = {}
    /\ OnlyNotFound
    /\ local = local0 /\ remote = remote0

\* C5 witness: a pull --list whose List answered NotFound has ended Empty
C5_Witness ==
  /\ cmd = "pull" /\ listOnly
  /\ <<0, "ListNotFound">> \in calls
  /\ pc = "Empty" /\ result = NoErr

\* the first call a transfer task makes
FirstCalls == {"Get", "Stat", "StatNotExist", "StatError", "StatNotRegular"}

\* C6: nothing is cancelled: after a task has failed, the loop still passes
\* every remaining record to the runner and every task runs to its end, so when
\* the command returns every listed record has been attempted and has ended.
C6_NoCancellation ==
  TransferEnded =>
    /\ idx = Len(files)
    /\ \A i \in Listed : tpc[i] = "done" /\ CallsOf(i) \cap FirstCalls # {}

\* C6 witness: the 9th download is running while the first one still is, so it
\* was started after one of the others had ended, and they end with an error
C6_Witness ==
  /\ cmd = "pull" /\ pc = "Loop"
  /\ firstErr # NoErr
  /\ 1 \in Running /\ 9 \in Running
  /\ \A i \in 2..8 : KeyOf(i) \notin healthy

\* the calls that read a listing
ListCalls == {<<0, "List">>, <<0, "ListNotFound">>, <<0, "ListError">>,
              <<0, "AllDataFiles">>, <<0, "AllDataFilesError">>}

\* C7: with --list, pull and push write to neither store: no Create, MkdirAll
\* or Upload call, no task submitted, both stores as they were.
C7_ListOnlyWritesNothing ==
  listOnly =>
    /\ local = local0 /\ remote = remote0
    /\ calls \subseteq ListCalls
    /\ idx = 0 /\ Running = {}
    /\ ~TransferReached
    /\ pc \in Terminal /\ ~dirty => pc \in {"Listed", "Empty"}

\* C7 witness: a pull --list of a revision with files has ended Listed
C7_Witness ==
  /\ cmd = "pull" /\ listOnly /\ pc = "Listed"
  /\ Len(files) >= 1
  /\ local = local0 /\ remote = remote0

\* C8: every stream a task opened is closed when the task ends, so no stream
\* is open once Wait has returned.
C8_StreamsClosed ==
  /\ \A h \in handles : tpc[h[1]] # "done"
  /\ pc \in {"Synced", "Failed"} => handles = {}

\* the keys of the revision the repository is at
OfRepoCommit(store) == \A k \in Present(store) : k[1] = RepoCommit

\* push, undisturbed, of a store of this revision's files to an empty remote,
\* followed by pull, undisturbed, into an empty local store
RoundTrip ==
  /\ prev.cmd = "push" /\ ~prev.listOnly /\ ~prev.dirty /\ prev.vanished = {}
  /\ prev.remote0 = EmptyStore
  /\ OfRepoCommit(prev.local0)
  /\ cmd = "pull" /\ ~listOnly /\ ~dirty
  /\ local0 = EmptyStore
  /\ pc \in Terminal

\* C9: push of a store to an empty remote followed by pull of the same
\* revision into an empty store ends without error and leaves the second
\* store with the paths and bytes of the first, empty files included.
C9_RoundTrip ==
  RoundTrip =>
    /\ prev.pc = "Synced" /\ prev.result = NoErr
    /\ pc \in {"Synced", "Empty"} /\ result = NoErr
    /\ local = prev.local0

\* C9 witness: the store {A: DataLen bytes, B: 0 bytes} went through push and
\* pull and the second store holds A and B with the same bytes
C9_Witness ==
  /\ RoundTrip
  /\ prev.local0 = StoreAB
  /\ pc = "Synced"
  /\ local[<<RepoCommit, PathA>>] = DataOf(DataLen)
  /\ local[<<RepoCommit, PathB>>] = Empty
  /\ Present(local) = {<<RepoCommit, PathA>>, <<RepoCommit, PathB>>}

\* pull, undisturbed, run again on the store the previous undisturbed pull left
PullTwice ==
  /\ prev.cmd = "pull" /\ ~prev.listOnly /\ ~prev.dirty
  /\ cmd = "pull" /\ ~listOnly /\ ~dirty
  /\ local0 = prev.local /\ remote0 = prev.remote
  /\ pc \in Terminal

\* C10: a second pull with no remote change ends without error, as the first
\* did, and leaves the local store as the first pull left it.
C10_PullIdempotent ==
  PullTwice =>
    /\ prev.pc \in {"Synced", "Empty"} /\ prev.result = NoErr
    /\ pc \in {"Synced", "Empty"} /\ result = NoErr
    /\ local = prev.local

\* C10 witness: the second pull rewrote files the first pull had written
C10_Witness ==
  /\ PullTwice
  /\ pc = "Synced"
  /\ Len(files) = 2
  /\ \A i \in Listed : <<i, "Copy">> \in calls
  /\ local = prev.local /\ prev.local # prev.local0

\* C11: in a pull, the listed records have pairwise distinct (commit, path)
\* pairs and no two running downloads have the same local target.
C11_DistinctTargets ==
  cmd = "pull" =>
    /\ \A i, j \in Listed : i # j => RecKey(files[i]) # RecKey(files[j])
    /\ \A i, j \in Running : i # j => KeyOf(i) # KeyOf(j)

\* C11 witness: two downloads have created their files and are copying at the
\* same time, each into its own path
C11_Witness ==
  /\ cmd = "pull"
  /\ \E i, j \in Running :
       /\ i # j
       /\ tpc[i] = "Copy" /\ tpc[j] = "Copy"
       /\ KeyOf(i) # KeyOf(j)

\* the setup steps of a command: OpenRepo, NewRepositoryStore, and the remote
\* List of a pull
SetupSteps == {"OpenRepo", "NewRepositoryStore", "List"}
\* a setup step failed
SetupFailed == result[1] = 0 /\ result[2] \in SetupSteps
\* the calls a transfer task makes
TransferCalls == {"Get", "MkdirAll", "Create", "Copy", "Stat", "StatNotExist",
                  "StatError", "StatNotRegular", "Open", "Upload"}

\* C12: when OpenRepo, NewRepositoryStore or (in a pull) a List answering
\* anything but 404 fails, the command ends in failure, no task was handed to
\* the run, no Get, Create or Upload call was made, and both stores are as
\* they were.
C12_SetupFailureAborts ==
  SetupFailed =>
    /\ pc \in {"Failed", "Fatal"}
    /\ ~TransferReached
    /\ idx = 0 /\ active = {}
    /\ \A i \in Tasks : tpc[i] = "new"
    /\ \A c \in calls : c[2] \notin TransferCalls
    /\ local = local0 /\ remote = remote0

\* C12 witness: a pull listed records, NewRepositoryStore then failed, and the
\* command returned the error with nothing transferred
C12_Witness ==
  /\ cmd = "pull" /\ pc = "Failed"
  /\ result = Err(0, "NewRepositoryStore")
  /\ Len(files) > 0
  /\ Present(remote0) # {}

\* the position of Execute in its straight-line code
PullRank(p) ==
  CASE p = "idle" -> 0
    [] p = "OpenRepo" -> 1
    [] p = "List" -> 2
    [] p \in {"Print", "NewStore"} -> 3
    [] p = "Loop" -> 4
    [] OTHER -> 5
\* the position of a download task in fetchFile
FetchRank(p) ==
  CASE p = "new" -> 0
    [] p = "Get" -> 1
    [] p = "MkdirAll" -> 2
    [] p = "Create" -> 3
    [] p = "Copy" -> 4
    [] OTHER -> 5
\* a step inside one pull only moves forward, and an ended pull stays ended
PullLinear ==
  (cmd' = "pull" /\ run' = run) =>
    /\ PullRank(pc') >= PullRank(pc)
    /\ pc' # pc => PullRank(pc') > PullRank(pc)
    /\ pc \in Terminal => UNCHANGED <<pc, result, idx>>
    /\ idx' >= idx
    /\ \A i \in Tasks : FetchRank(tpc'[i]) >= FetchRank(tpc[i])

\* C13: a pull only moves forward through its states, a pull that has ended
\* stays in the state it ended in, and every pull that was started ends
\* (Empty, Listed, Synced, Failed, or the failure exit of log.Fatal), for
\* more than 8 listed files too.
C13_PullTerminates ==
  /\ [][PullLinear]_vars
  /\ (cmd = "pull" /\ pc \notin Terminal) ~> (cmd = "pull" /\ pc \in Terminal)

\* C13 witness: a pull over more than 8 records went through the loop and
\* Wait and ended, every task done
C13_Witness ==
  /\ cmd = "pull" /\ pc \in {"Synced", "Failed"}
  /\ TransferReached
  /\ Len(files) > PullMaxPar
  /\ idx = Len(files)
  /\ \A i \in Listed : tpc[i] = "done"

\* the steps of fetchFile in the order of its code
FetchSteps == <<"Get", "MkdirAll", "Create", "Copy">>
\* the steps of fetchFile up to and including step
FetchUpTo(step) ==
  {FetchSteps[n] : n \in {m \in 1..4 : \E k \in m..4 : FetchSteps[k] = step}}
\* the directories of the local store when the run began
Dirs0 == {k[1] : k \in Present(local0)}
\* the download tasks that got as far as calling MkdirAll
MadeDir == {i \in Tasks : "MkdirAll" \in CallsOf(i)}

\* C14: a download task makes its calls in the order Get, MkdirAll, Create,
\* Copy and stops at the first that fails: it ends with an error exactly when
\* its last call failed, and with nil only after all four. A task whose Get
\* failed made no directory and left its file as it was, and a failed task
\* makes the pull end Failed with a task's error.
C14_DownloadStepsInOrder ==
  cmd = "pull" =>
    /\ \A i \in Tasks :
         /\ tpc[i] = "new" => CallsOf(i) = {}
         /\ \A step \in CallsOf(i) : FetchUpTo(step) \subseteq CallsOf(i)
         /\ "Create" \in CallsOf(i) =>
              /\ Dir(KeyOf(i)) \in localDirs
              /\ tdata[i] = remote[KeyOf(i)]
              /\ tres[i] \notin {Err(i, "Get"), Err(i, "MkdirAll")}
         /\ tpc[i] = "done" =>
              IF tres[i] = NoErr
              THEN CallsOf(i) = FetchUpTo("Copy")
              ELSE \E n \in 1..4 :
                     /\ tres[i] = Err(i, FetchSteps[n])
                     /\ CallsOf(i) = FetchUpTo(FetchSteps[n])
         /\ tres[i] = Err(i, "Get") => local[KeyOf(i)] = local0[KeyOf(i)]
    /\ localDirs \subseteq Dirs0 \cup {Dir(KeyOf(i)) : i \in MadeDir}
    /\ \A k \in Keys :
         local[k] # local0[k] =>
           \E i \in Tasks : KeyOf(i) = k /\ "Create" \in CallsOf(i)
    /\ (TransferEnded /\ FailedTasks # {}) =>
         /\ pc = "Failed"
         /\ result \in {tres[i] : i \in FailedTasks}

\* C14 witness: a pull into an empty store ended Failed with the error of a
\* task whose Get failed; that task left no file, while another task
\* downloaded its own
C14_Witness ==
  /\ cmd = "pull" /\ pc = "Failed"
  /\ local0 = EmptyStore
  /\ \E i, j \in Listed :
       /\ tres[i] = Err(i, "Get") /\ result = tres[i]
       /\ local[KeyOf(i)] = Absent
       /\ tpc[j] = "done" /\ tres[j] = NoErr
       /\ local[KeyOf(j)] = remote[KeyOf(j)]

Submitted == 1..idx
\* the tasks that were handed the n-th listed record
TasksOn(n) == {i \in Tasks : tpc[i] # "new" /\ trec[i] = files[n]}

\* C16: in a pull or push without --list, the tasks handed to the run are
\* one per listed record in listing order, each holding the record it was
\* started for; no record has two tasks, and when Wait has returned every
\* one of the N records has exactly one task, which has ended.
C16_OneTaskPerRecord ==
  /\ idx <= Len(files)
  /\ \A i \in Tasks :
       IF i \in Submitted
       THEN /\ tpc[i] # "new"
            /\ trec[i] = files[i]
            /\ \A c \in CallsOf(i) : c \in TransferCalls
       ELSE /\ tpc[i] = "new"
            /\ trec[i] = NoRecs[i]
            /\ CallsOf(i) = {}
  /\ \A n \in Listed : Cardinality(TasksOn(n)) <= 1
  /\ listOnly => idx = 0
  /\ TransferEnded =>
       /\ idx = Len(files)
       /\ \A n \in Listed :
            /\ TasksOn(n) = {n}
            /\ tpc[n] = "done"

\* C16 witness: a push over two or more files came back from Wait; each
\* record's own task ran on it and uploaded it
C16_Witness ==
  /\ cmd = "push" /\ TransferEnded
  /\ Len(files) >= 2
  /\ idx = Len(files)
  /\ \A n \in Listed :
       /\ trec[n] = files[n]
       /\ "Upload" \in CallsOf(n)
       /\ remote[RecKey(files[n])] = local[RecKey(files[n])]

\* the outcomes of Stat on which uploadFile skips the file
StatSkips == {"StatNotExist", "StatError", "StatNotRegular"}

\* C17: an upload task whose Stat gave an error of any kind, or a path that
\* is not a regular file, has returned nil having made no other call: it did
\* not open the file and did not call Upload. Open and Upload are called only
\* after a Stat that reported a regular file, and no task and no push ends
\* with an error of Stat.
C17_StatFailureSkips ==
  cmd = "push" =>
    /\ \A i \in Tasks :
         /\ CallsOf(i) \cap StatSkips # {} =>
              /\ tpc[i] = "done" /\ tres[i] = NoErr
              /\ Cardinality(CallsOf(i)) = 1
              /\ <<i, "f">> \notin handles
         /\ "Open" \in CallsOf(i) => "Stat" \in CallsOf(i)
         /\ "Upload" \in CallsOf(i) => {"Stat", "Open"} \subseteq CallsOf(i)
         /\ tres[i] \in {NoErr, Err(i, "Open"), Err(i, "Upload")}
    /\ result[2] \in {"nil", "OpenRepo", "NewRepositoryStore", "Open", "Upload"}
    /\ \A k \in Keys :
         remote[k] # remote0[k] =>
           \E i \in Tasks : KeyOf(i) = k /\ {"Stat", "Upload"} \subseteq CallsOf(i)

\* C17 witness: a push ended Synced although Stat failed, with an error that
\* is not "does not exist", on a file the local store holds; the file was
\* not uploaded
C17_Witness ==
  /\ cmd = "push" /\ pc = "Synced" /\ result = NoErr
  /\ \E i \in Listed :
       /\ CallsOf(i) = {"StatError"}
       /\ local[KeyOf(i)] # Absent
       /\ remote[KeyOf(i)] = Absent

\* the local file at k was written in this run and does not hold the bytes
\* the remote holds for k
Partial(k) ==
  /\ local[k] # Absent
  /\ local[k] # local0[k]
  /\ local[k] # remote[k]

\* C18: when a pull without --list whose List gave records has ended Synced,
\* the local store holds, for every listed record, at FilePath(CommitID,
\* Path), exactly the bytes the remote holds for it. When a pull has ended,
\* a file written in part is there only if the pull ended Failed.
C18_SyncedMeansComplete ==
  cmd = "pull" =>
    /\ pc = "Synced" =>
         /\ files = RemoteList(RepoCommit)
         /\ \A n \in Listed :
              /\ remote[RecKey(files[n])] # Absent
              /\ local[RecKey(files[n])] = remote[RecKey(files[n])]
    /\ pc \in Terminal =>
         \A k \in Keys : Partial(k) => pc = "Failed"

\* C18 witness: a pull into an empty local store listed two or more records
\* and ended Synced; the store now holds the remote's bytes for each
C18_Witness ==
  /\ cmd = "pull" /\ pc = "Synced" /\ result = NoErr
  /\ local0 = EmptyStore
  /\ Len(files) >= 2
  /\ \E n \in Listed : Len(remote[RecKey(files[n])]) > 1
  /\ \A n \in Listed : local[RecKey(files[n])] = remote[RecKey(files[n])]

\* the calls of a download task, and those of an upload task
FetchCalls == {"Get", "MkdirAll", "Create", "Copy"}
UploadCalls == TransferCalls \ FetchCalls

\* C19: during and after a pull, with or without --list and whatever failed,
\* the remote holds what it held when the pull began and no upload call was
\* made. During and after a push, the local store holds the files and
\* directories it held when the push began, but for files deleted from
\* outside, and no Get, MkdirAll, Create or Copy call was made.
C19_DirectionFrame ==
  /\ cmd = "pull" =>
       /\ remote = remote0
       /\ \A c \in calls : c[2] \notin UploadCalls
  /\ cmd = "push" =>
       /\ \A k \in Keys :
            \/ local[k] = local0[k]
            \/ k \in vanished /\ local[k] = Absent
       /\ localDirs = Dirs0
       /\ \A c \in calls : c[2] \notin FetchCalls

\* C19 witness: a push ended Failed after an upload had changed the remote;
\* the local store is as it was
C19_Witness ==
  /\ cmd = "push" /\ pc = "Failed"
  /\ remote # remote0
  /\ Present(local0) # {}
  /\ local = local0
  /\ localDirs = Dirs0

====
